---- MODULE Spec2Model ----
(***************************************************************************)
(* Model of facr_builder.py: the name resolver (get_ip_address, get_fqdn,  *)
(* add_server_info), the service lookup (get_service), the rule expander   *)
(* (generate_rules_for_service, generate_rules), the CSV sink              *)
(* (write_rules_to_csv) and the driver loop of main.                       *)
(*                                                                         *)
(* Python dictionaries are records; a key that a dictionary may lack is    *)
(* tracked in the record's `keys` field (services) or by the value Unset   *)
(* (the "ip_address" key of a host or endpoint that was never resolved).   *)
(* Service names are sequences of characters so that str.lower() is        *)
(* computed, not assumed.                                                  *)
(***************************************************************************)
EXTENDS Integers, Sequences, FiniteSets, TLC

VARIABLES pc, exc, in, hosts, services, idx, rules, output, trace, attempts

vars == <<pc, exc, in, hosts, services, idx, rules, output, trace, attempts>>

----------------------------------------------------------------------------
(* Bounds of the explored inputs *)

MaxHosts == 2
MaxIncoming == 2
MaxOutgoing == 2
MaxRequests == 2

----------------------------------------------------------------------------
(* Values *)

None == "None"
Unset == "<no key>"
NoFile == <<>>

Names == {"n1", "n2"}
Addrs == {"ip1", "ip2"}
PtrAddrs == {"ip1"}
HostLobs == {"FUELS", "PAYMENTS"}
ServiceLobs == {"PAYMENTS"}

SeqsUpTo(S, n) == UNION {[1..k -> S] : k \in 0..n}

----------------------------------------------------------------------------
(* str.lower() on service names *)

Chars == {"d", "D", "b", "B", "n", "N", "t", "T"}

LowerChar == [c \in Chars |->
                 CASE c = "D" -> "d" [] c = "B" -> "b"
                   [] c = "N" -> "n" [] c = "T" -> "t"
                   [] OTHER -> c]

lower(s) == [i \in 1..Len(s) |-> LowerChar[s[i]]]

----------------------------------------------------------------------------
(* Name resolver.  dns.fwd is socket.gethostbyname (None: socket.error),   *)
(* dns.rev is socket.gethostbyaddr as socket.getfqdn uses it: the          *)
(* canonical name, or the address itself when the reverse lookup fails.    *)

Resolvers ==
    { [fwd |-> f, rev |-> r] :
        f \in [Names -> Addrs \cup {None}],
        r \in { g \in [Addrs -> Names \cup Addrs] :
                  \A a \in Addrs : /\ g[a] \in Names \cup {a}
                                   /\ a \notin PtrAddrs => g[a] = a } }

get_ip_address(dns, hostname) == dns.fwd[hostname]

AttributeError == "AttributeError"
KeyError == "KeyError"

\* socket.getfqdn(None) evaluates None.strip(): AttributeError, which the
\* `except socket.error` clause does not catch.  Otherwise socket.getfqdn
\* never raises and never returns None.
get_fqdn(dns, host_or_ip) ==
    IF host_or_ip = None THEN AttributeError ELSE dns.rev[host_or_ip]

add_server_info(dns, server) ==
    LET ip == get_ip_address(dns, server.hostname)
        s1 == [server EXCEPT !.ip_address = ip]
        fqdn == get_fqdn(dns, ip)
    IN  IF fqdn = AttributeError THEN [server |-> s1, raised |-> TRUE]
        ELSE IF fqdn = ip THEN [server |-> s1, raised |-> FALSE]
        ELSE [server |-> [s1 EXCEPT !.hostname = fqdn], raised |-> FALSE]

\* [add_server_info(s) for s in list]: the dictionaries are updated in
\* place, left to right, and the comprehension stops at the first raise.
\* calls = how many elements add_server_info was called on.
RECURSIVE resolve_all(_, _, _)
resolve_all(dns, list, i) ==
    IF i > Len(list) THEN [list |-> list, raised |-> FALSE, calls |-> Len(list)]
    ELSE LET r == add_server_info(dns, list[i])
             l1 == [list EXCEPT ![i] = r.server]
         IN  IF r.raised THEN [list |-> l1, raised |-> TRUE, calls |-> i]
             ELSE resolve_all(dns, l1, i + 1)

----------------------------------------------------------------------------
(* Rule *)

Rule(sh, si, sl, dh, di, dl, port) ==
    [source_hostname |-> sh, source_ip_address |-> si, source_lob |-> sl,
     destination_hostname |-> dh, destination_ip_address |-> di,
     destination_lob |-> dl, destination_protocol_port |-> port,
     add_modify_remove |-> "Add", temporary |-> "No"]

RuleFields == <<"source_hostname", "source_ip_address", "source_lob",
                "destination_hostname", "destination_ip_address",
                "destination_lob", "destination_protocol_port",
                "add_modify_remove", "temporary">>

----------------------------------------------------------------------------
(* Service dictionaries *)

ServiceGet(service, key, default) ==
    IF key \in service.keys
      THEN (CASE key = "bi-directional" -> service.bidirectional
              [] key = "lob" -> service.lob
              [] key = "incoming" -> service.incoming
              [] key = "outgoing" -> service.outgoing)
      ELSE default

get_service(name, svcs) ==
    IF lower(name) \in DOMAIN svcs
      THEN [found |-> TRUE, key |-> lower(name)]
      ELSE [found |-> FALSE, key |-> <<>>]

----------------------------------------------------------------------------
(* generate_rules: the two nested loops, appending one rule at a time *)

RECURSIVE inbound_loop(_, _, _, _, _, _, _)
inbound_loop(hs, incoming, host_lob, service_lob, h, s, acc) ==
    IF h > Len(hs) THEN acc
    ELSE IF s > Len(incoming)
      THEN inbound_loop(hs, incoming, host_lob, service_lob, h + 1, 1, acc)
      ELSE inbound_loop(hs, incoming, host_lob, service_lob, h, s + 1,
             Append(acc, Rule(hs[h].hostname, hs[h].ip_address, host_lob,
                              incoming[s].hostname, incoming[s].ip_address,
                              service_lob, incoming[s].protocol_port)))

\* outbound_loop with the loops nested the other way round.
RECURSIVE outbound_loop_hosts_outer(_, _, _, _, _, _)
outbound_loop_hosts_outer(hs, outgoing, host_lob, s, h, acc) ==
    IF h > Len(hs) THEN acc
    ELSE IF s > Len(outgoing)
      THEN outbound_loop_hosts_outer(hs, outgoing, host_lob, 1, h + 1, acc)
      ELSE outbound_loop_hosts_outer(hs, outgoing, host_lob, s + 1, h,
             Append(acc, Rule(outgoing[s].hostname, outgoing[s].ip_address,
                              "CONINFRA",
                              hs[h].hostname, hs[h].ip_address, host_lob,
                              outgoing[s].protocol_port)))

RECURSIVE outbound_loop(_, _, _, _, _, _)
outbound_loop(hs, outgoing, host_lob, s, h, acc) ==
    IF s > Len(outgoing) THEN acc
    ELSE IF h > Len(hs)
      THEN outbound_loop(hs, outgoing, host_lob, s + 1, 1, acc)
      ELSE outbound_loop(hs, outgoing, host_lob, s, h + 1,
             Append(acc, Rule(outgoing[s].hostname, outgoing[s].ip_address,
                              "CONINFRA",
                              hs[h].hostname, hs[h].ip_address, host_lob,
                              outgoing[s].protocol_port)))

\* service["outgoing"] on a dictionary without that key: KeyError.
generate_rules(hs, host_lob, service, service_lob) ==
    LET inb == inbound_loop(hs, service.incoming, host_lob, service_lob,
                            1, 1, <<>>)
    IN  IF ~ServiceGet(service, "bi-directional", FALSE)
          THEN [rules |-> inb, raised |-> FALSE, exc |-> None]
        ELSE IF "outgoing" \notin service.keys
          THEN [rules |-> <<>>, raised |-> TRUE, exc |-> KeyError]
        ELSE [rules |-> outbound_loop(hs, service.outgoing, host_lob,
                                      1, 1, inb),
              raised |-> FALSE, exc |-> None]

\* generate_rules_for_service resolving the incoming endpoints only.
generate_rules_for_service_incoming_only(dns, hs, lob, service) ==
    LET ri == resolve_all(dns, service.incoming, 1)
        s1 == [service EXCEPT !.incoming = ri.list]
        g  == generate_rules(hs, lob, s1, ServiceGet(s1, "lob", "CONINFRA"))
    IN  IF ri.raised
          THEN [service |-> s1, rules |-> <<>>, raised |-> TRUE,
                exc |-> AttributeError, inCalls |-> ri.calls, outCalls |-> 0]
          ELSE [service |-> s1, rules |-> g.rules, raised |-> g.raised,
                exc |-> g.exc, inCalls |-> ri.calls, outCalls |-> 0]

\* The returned record carries the service dictionary as the call leaves it
\* (the call updates the caller's dictionary in place), the rules, whether
\* the call raised, and how many endpoints of each list were looked up.
generate_rules_for_service(dns, hs, lob, service) ==
    LET ri == resolve_all(dns, service.incoming, 1)
        s1 == [service EXCEPT !.incoming = ri.list]
        doOut == ~ri.raised /\ "outgoing" \in service.keys
        ro == IF doOut THEN resolve_all(dns, service.outgoing, 1)
              ELSE [list |-> service.outgoing, raised |-> FALSE, calls |-> 0]
        s2 == [s1 EXCEPT !.outgoing = ro.list]
        g  == generate_rules(hs, lob, s2, ServiceGet(s2, "lob", "CONINFRA"))
    IN  IF ri.raised \/ ro.raised
          THEN [service |-> s2, rules |-> <<>>, raised |-> TRUE,
                exc |-> AttributeError, inCalls |-> ri.calls,
                outCalls |-> ro.calls]
          ELSE [service |-> s2, rules |-> g.rules, raised |-> g.raised,
                exc |-> g.exc, inCalls |-> ri.calls, outCalls |-> ro.calls]

----------------------------------------------------------------------------
(* write_rules_to_csv: the header row, then one row per rule *)

asdict_row(rule) == [i \in 1..Len(RuleFields) |-> rule[RuleFields[i]]]

\* write_rules_to_csv writing the header only ahead of a first row.
write_rules_to_csv_no_header_when_empty(rs) ==
    IF Len(rs) = 0 THEN <<>>
    ELSE <<RuleFields>> \o [i \in 1..Len(rs) |-> asdict_row(rs[i])]

write_rules_to_csv(rs) ==
    <<RuleFields>> \o [i \in 1..Len(rs) |-> asdict_row(rs[i])]

----------------------------------------------------------------------------
(* Inputs of a run *)

NameAt(i) == IF i % 2 = 1 THEN "n1" ELSE "n2"

Ports == <<"443/tcp", "53/udp", "22/tcp", "80/tcp">>

PortAt(i) == Ports[((i - 1) % Len(Ports)) + 1]

\* load_hosts: one dictionary {"hostname": line} per non-blank line of the
\* host file; here the file has k lines.
load_hosts(k) == [i \in 1..k |-> [hostname |-> NameAt(i), ip_address |-> Unset]]

\* Endpoint lists as the service file gives them: each endpoint has a name
\* and a protocol/port, and no address yet.
IncomingList(k) == [i \in 1..k |-> [hostname |-> NameAt(i + 1),
                                    ip_address |-> Unset,
                                    protocol_port |-> PortAt(i)]]

OutgoingList(k) == [i \in 1..k |-> [hostname |-> NameAt(i),
                                    ip_address |-> Unset,
                                    protocol_port |-> PortAt(i + 2)]]

\* Service definitions: "incoming" is always there; "outgoing",
\* "bi-directional" and "lob" are optional keys.  A key that is absent has
\* a placeholder in its field, which ServiceGet never reads.
ServiceDefs ==
    { [keys |-> {"incoming"} \cup ks, incoming |-> IncomingList(ni),
       outgoing |-> IF "outgoing" \in ks THEN OutgoingList(no) ELSE <<>>,
       bidirectional |-> "bi-directional" \in ks,
       lob |-> IF "lob" \in ks THEN l ELSE None] :
        ks \in SUBSET {"outgoing", "bi-directional", "lob"},
        ni \in 0..MaxIncoming, no \in 0..MaxOutgoing, l \in ServiceLobs }

NtpService ==
    [keys |-> {"incoming"},
     incoming |-> <<[hostname |-> "n2", ip_address |-> Unset,
                     protocol_port |-> "123/udp"]>>,
     outgoing |-> <<>>, bidirectional |-> FALSE, lob |-> None]

\* load_services: the catalog.  One key is lower case, the other is not.
Catalogs == { (<<"d", "b">> :> svc) @@ (<<"N", "t">> :> NtpService) :
                svc \in ServiceDefs }

RequestNames == {<<"D", "b">>, <<"N", "t">>}

\* validate exits when no service name is given.
Requests == SeqsUpTo(RequestNames, MaxRequests) \ {<<>>}

NoAttempts(svcs, hs) ==
    [hosts |-> [i \in 1..Len(hs) |-> 0],
     eps |-> [k \in DOMAIN svcs |->
                [incoming |-> [i \in 1..Len(svcs[k].incoming) |-> 0],
                 outgoing |-> [i \in 1..Len(svcs[k].outgoing) |-> 0]]]]

\* The state main is in once validate and load_hosts have returned.
MainInit ==
    \E nh \in 0..MaxHosts, lob \in HostLobs,
       svcs \in Catalogs, names \in Requests, dns \in Resolvers :
        /\ in = [hosts |-> load_hosts(nh), lob |-> lob, services |-> svcs,
                 service_names |-> names, dns |-> dns]
        /\ hosts = load_hosts(nh)
        /\ services = svcs
        /\ pc = "start"
        /\ exc = None
        /\ idx = 1
        /\ rules = <<>>
        /\ output = NoFile
        /\ trace = <<>>
        /\ attempts = NoAttempts(svcs, load_hosts(nh))

\* Rule sequences handed to write_rules_to_csv by a direct caller.
SampleRules ==
    <<Rule("n1", "ip1", "FUELS", "n2", "ip2", "CONINFRA", "443/tcp"),
      Rule("n2", "ip2", "CONINFRA", "n1", "ip1", "FUELS", "22/tcp")>>

\* A direct call of write_rules_to_csv(rules, filename), outside main: no
\* host, nothing in the service, no name service.
NoServices ==
    (<<"d", "b">> :> [keys |-> {"incoming"}, incoming |-> <<>>,
                      outgoing |-> <<>>, bidirectional |-> FALSE,
                      lob |-> None])
    @@ (<<"N", "t">> :> NtpService)

NoDns == [fwd |-> [n \in Names |-> None], rev |-> [a \in Addrs |-> a]]

SinkInit ==
    \E k \in 0..Len(SampleRules) :
        /\ in = [hosts |-> <<>>, lob |-> "FUELS", services |-> NoServices,
                 service_names |-> <<>>, dns |-> NoDns]
        /\ hosts = <<>>
        /\ services = NoServices
        /\ pc = "sink"
        /\ exc = None
        /\ idx = 1
        /\ rules = SubSeq(SampleRules, 1, k)
        /\ output = NoFile
        /\ trace = <<>>
        /\ attempts = NoAttempts(NoServices, <<>>)

Init == MainInit \/ SinkInit

----------------------------------------------------------------------------
(* main *)

Bump(counts, n) == [i \in 1..Len(counts) |->
                      IF i <= n THEN counts[i] + 1 ELSE counts[i]]

\* line 46: hosts = [add_server_info(host) for host in hosts]
ResolveHosts ==
    /\ pc = "start"
    /\ LET r == resolve_all(in.dns, hosts, 1)
       IN  /\ hosts' = r.list
           /\ attempts' = [attempts EXCEPT !.hosts = Bump(@, r.calls)]
           /\ pc' = IF r.raised THEN "raised" ELSE "loop"
           /\ exc' = IF r.raised THEN AttributeError ELSE exc
    /\ UNCHANGED <<in, services, idx, rules, output, trace>>

\* SkipService leaving the loop (break) instead of going on (continue).
SkipService_break ==
    /\ pc = "loop"
    /\ idx <= Len(in.service_names)
    /\ LET name == in.service_names[idx]
           service == get_service(name, services)
       IN  /\ ~service.found
           /\ trace' = Append(trace, [name |-> name, called |-> FALSE,
                                      raised |-> FALSE, returned |-> <<>>])
    /\ idx' = Len(in.service_names) + 1
    /\ UNCHANGED <<pc, exc, in, hosts, services, rules, output, attempts>>

\* lines 49-54: the requested name is not in the catalog
SkipService ==
    /\ pc = "loop"
    /\ idx <= Len(in.service_names)
    /\ LET name == in.service_names[idx]
           service == get_service(name, services)
       IN  /\ ~service.found
           /\ trace' = Append(trace, [name |-> name, called |-> FALSE,
                                      raised |-> FALSE, returned |-> <<>>])
    /\ idx' = idx + 1
    /\ UNCHANGED <<pc, exc, in, hosts, services, rules, output, attempts>>

\* lines 49-57: the requested name is in the catalog
GenerateService ==
    /\ pc = "loop"
    /\ idx <= Len(in.service_names)
    /\ LET name == in.service_names[idx]
           service == get_service(name, services)
       IN  /\ service.found
           /\ LET g == generate_rules_for_service(in.dns, hosts, in.lob,
                                                  services[service.key])
              IN  /\ services' = [services EXCEPT ![service.key] = g.service]
                  /\ attempts' =
                       [attempts EXCEPT
                          !.eps[service.key].incoming = Bump(@, g.inCalls),
                          !.eps[service.key].outgoing = Bump(@, g.outCalls)]
                  /\ trace' = Append(trace,
                                [name |-> name, called |-> TRUE,
                                 raised |-> g.raised, returned |-> g.rules])
                  /\ IF g.raised
                       THEN /\ pc' = "raised"
                            /\ exc' = g.exc
                            /\ UNCHANGED <<rules, idx>>
                       ELSE /\ rules' = rules \o g.rules
                            /\ idx' = idx + 1
                            /\ UNCHANGED <<pc, exc>>
    /\ UNCHANGED <<in, hosts, output>>

\* lines 59-61: the file is written only when there is a rule
WriteOutput ==
    /\ pc = "loop"
    /\ idx > Len(in.service_names)
    /\ output' = IF Len(rules) > 0 THEN write_rules_to_csv(rules) ELSE output
    /\ pc' = "done"
    /\ UNCHANGED <<exc, in, hosts, services, idx, rules, trace, attempts>>

\* lines 227-240, called with any rule sequence
CallWriteRules ==
    /\ pc = "sink"
    /\ output' = write_rules_to_csv(rules)
    /\ pc' = "sunk"
    /\ UNCHANGED <<exc, in, hosts, services, idx, rules, trace, attempts>>

Next ==
    \/ ResolveHosts
    \/ SkipService
    \/ GenerateService
    \/ WriteOutput
    \/ CallWriteRules

Spec == Init /\ [][Next]_vars

TypeOK ==
    /\ pc \in {"start", "loop", "done", "raised", "sink", "sunk"}
    /\ exc \in {None, AttributeError, KeyError}
    /\ idx \in 1..(MaxRequests + 1)

----------------------------------------------------------------------------
(* Properties *)

DbKey == <<"d", "b">>

Running == pc \in {"loop", "done"}

\* The latest request, when main has handled one.
HasLast == Len(trace) > 0
Last == trace[Len(trace)]

\* How many expansions main has started for catalog key k.
RECURSIVE CallsOf(_, _)
CallsOf(k, n) ==
    IF n = 0 THEN 0
    ELSE CallsOf(k, n - 1)
         + (IF trace[n].called /\ lower(trace[n].name) = k THEN 1 ELSE 0)

\* The rules of the expansions that returned, in request order.
RECURSIVE Returned(_)
Returned(n) ==
    IF n = 0 THEN <<>>
    ELSE Returned(n - 1)
         \o (IF trace[n].called /\ ~trace[n].raised
               THEN trace[n].returned ELSE <<>>)

EqualIgnoringCase(a, b) ==
    /\ Len(a) = Len(b)
    /\ \A i \in 1..Len(a) : LowerChar[a[i]] = LowerChar[b[i]]

C2_FailedLookupKeepsGoing ==
    \A i \in 1..Len(hosts) :
        (attempts.hosts[i] > 0 /\ in.dns.fwd[in.hosts[i].hostname] = None) =>
            /\ pc # "raised"
            /\ hosts[i].hostname = in.hosts[i].hostname
            /\ hosts[i].ip_address = None

\* C3: an expansion returns len(hosts) * len(incoming) rules, plus
\* len(outgoing) * len(hosts) when the service is bidirectional, for every
\* service the catalog may hold ("outgoing" is optional).  Expansions that
\* a failed lookup ended are left to C2.
C3_RuleCount ==
    (HasLast /\ Last.called /\ ~(Last.raised /\ exc = AttributeError)) =>
        LET svc == in.services[DbKey]
            H == Len(hosts)
        IN  /\ ~Last.raised
            /\ Len(Last.returned) =
                 H * Len(svc.incoming)
                 + (IF svc.bidirectional THEN Len(svc.outgoing) * H ELSE 0)

\* C4: an expansion with no host, or of a service with no incoming
\* endpoint, returns no rule and does not raise.  Expansions that a failed
\* lookup ended are left to C2.
C4_EmptyInputsGiveNoRules ==
    (/\ HasLast /\ Last.called /\ ~(Last.raised /\ exc = AttributeError)
     /\ (Len(hosts) = 0 \/ Len(in.services[DbKey].incoming) = 0)) =>
        /\ ~Last.raised
        /\ Last.returned = <<>>

\* C5: a requested name is found exactly when some catalog key equals it
\* ignoring letter case.
C5_CaseInsensitiveLookup ==
    \A n \in 1..Len(trace) :
        trace[n].called <=>
            \E k \in DOMAIN in.services : EqualIgnoringCase(trace[n].name, k)

\* C6: after any number of expansions that returned, the catalog's service
\* definitions are what load_services gave and the host records are what
\* they were when the first expansion was called.
C6_InputsUnchanged ==
    (Running /\ HasLast /\ Last.called) =>
        /\ services = in.services
        /\ hosts = resolve_all(in.dns, in.hosts, 1).list

\* C7: two expansions of the same service in one run, with the same hosts
\* and resolver, return the same rule sequence.
C7_RepeatableExpansion ==
    \A m \in 1..Len(trace) : \A n \in 1..Len(trace) :
        (/\ trace[m].called /\ ~trace[m].raised
         /\ trace[n].called /\ ~trace[n].raised) =>
            trace[m].returned = trace[n].returned

\* C8 as claimed: no host and no endpoint is looked up more than once.
C8_AtMostOneLookup ==
    Running =>
        /\ \A i \in 1..Len(hosts) : attempts.hosts[i] <= 1
        /\ \A k \in DOMAIN services :
             /\ \A i \in 1..Len(services[k].incoming) :
                  attempts.eps[k].incoming[i] <= 1
             /\ \A i \in 1..Len(services[k].outgoing) :
                  attempts.eps[k].outgoing[i] <= 1

\* C8 as amended: a host is looked up once; an endpoint is looked up once
\* per expansion of its service, so as many times as its service was
\* requested and found (in a run that an exception ended, at most that).
C8_OneLookupPerExpansion ==
    /\ \A i \in 1..Len(hosts) :
         /\ attempts.hosts[i] <= 1
         /\ Running => attempts.hosts[i] = 1
    /\ \A k \in DOMAIN services :
         LET calls == CallsOf(k, Len(trace))
         IN  /\ \A i \in 1..Len(services[k].incoming) :
                  /\ attempts.eps[k].incoming[i] <= calls
                  /\ Running => attempts.eps[k].incoming[i] = calls
             /\ \A i \in 1..Len(services[k].outgoing) :
                  /\ attempts.eps[k].outgoing[i] <= calls
                  /\ Running => attempts.eps[k].outgoing[i] = calls

C8_Witness ==
    /\ pc = "done"
    /\ Len(hosts) > 0
    /\ Len(services[DbKey].incoming) > 0
    /\ Len(services[DbKey].outgoing) > 0
    /\ attempts.eps[DbKey].incoming[1] = 2
    /\ attempts.eps[DbKey].outgoing[1] = 2

HeaderRow ==
    <<"source_hostname", "source_ip_address", "source_lob",
      "destination_hostname", "destination_ip_address", "destination_lob",
      "destination_protocol_port", "add_modify_remove", "temporary">>

\* C9 as claimed: a run that ends with no rule leaves a header-only file.
C9_EmptyRunWritesHeader ==
    (pc = "done" /\ rules = <<>>) => output = <<HeaderRow>>

\* C9 as amended: write_rules_to_csv of an empty sequence writes the header
\* row alone, but main calls it only when there is a rule, so a run that
\* ends with no rule writes no file.
C9_HeaderOnlyWhenCalled ==
    /\ (pc = "sunk" /\ rules = <<>>) => output = <<HeaderRow>>
    /\ (pc = "done" /\ rules = <<>>) => output = NoFile
    /\ (pc \in {"sunk", "done"} /\ rules # <<>>) =>
         /\ Len(output) = Len(rules) + 1
         /\ output[1] = HeaderRow

C9_Witness == pc = "sunk" /\ rules = <<>> /\ output = <<HeaderRow>>

\* C10: main expands exactly the requested names that get_service finds,
\* goes on after a name it does not find, and ends with the rules of those
\* expansions, concatenated in request order.
C10_FoundNamesInOrder ==
    /\ \A n \in 1..Len(trace) :
         /\ trace[n].name = in.service_names[n]
         /\ trace[n].called <=> get_service(trace[n].name, in.services).found
    /\ Running => /\ Len(trace) = idx - 1
                  /\ rules = Returned(Len(trace))
    /\ pc = "done" => Len(trace) = Len(in.service_names)

C10_Witness ==
    /\ pc = "done"
    /\ Len(trace) = 2
    /\ ~trace[1].called
    /\ trace[2].called
    /\ rules # <<>>

====
